---- MODULE Spec2Model ----
(***************************************************************************)
(* Model of src/my_project/app.py: a Streamlit script that loads a CSV of  *)
(* online-shopping transactions, cleans it (load_and_clean_data), offers   *)
(* the cleaned table for download and renders statistics, charts and a     *)
(* summary when one of three buttons is pressed.  Every user interaction   *)
(* re-executes the script from its first line to its last; the loader is   *)
(* wrapped in st.cache_data, which stores the result and hands each call a *)
(* private copy of it.                                                     *)
(*                                                                         *)
(* Numbers are modelled as naturals written as unsigned decimal literals;  *)
(* sums and means are exact (no floating-point rounding).                  *)
(***************************************************************************)
EXTENDS Integers, Sequences, FiniteSets, TLC

VARIABLES
  file,          \* the CSV next to the script
  cache,         \* the entry st.cache_data keeps for load_and_clean_data
  bodyRuns,      \* executions of the body of load_and_clean_data
  firstTable,    \* the table its first execution returned
  loaded,        \* what load_and_clean_data() returned in the latest run
  df,            \* the script's table at the end of the latest run
  csv_download,  \* the data of the download button in the latest run
  out,           \* what the pressed button rendered in the latest run
  lastAction,    \* the interaction that caused the latest run
  started,       \* the page has been opened
  shownBefore    \* Show Visualizations ran in an earlier run

vars == <<file, cache, bodyRuns, firstTable, loaded, df, csv_download, out,
          lastAction, started, shownBefore>>

(***************************************************************************)
(* Bounds of the model.                                                    *)
(***************************************************************************)
MaxRows == 2

(***************************************************************************)
(* Cell values of a DataFrame.                                             *)
(***************************************************************************)
NaN == [nan |-> TRUE]
NaT == [nat |-> TRUE]
Num(n) == [num |-> n]
Str(t) == [str |-> t]
Ts(y, m, d) == [ts |-> <<y, m, d>>]
Period(y, m) == [period |-> <<y, m>>]

IsNum(v) == DOMAIN v = {"num"}
IsStr(v) == DOMAIN v = {"str"}
IsTs(v) == DOMAIN v = {"ts"}
IsNull(v) == v = NaN \/ v = NaT

(***************************************************************************)
(* Text of a CSV field: a sequence of characters.                          *)
(***************************************************************************)
DigitChars == <<"0", "1", "2", "3", "4", "5", "6", "7", "8", "9">>
IsDigit(ch) == \E i \in 1..Len(DigitChars) : DigitChars[i] = ch
DigitVal(ch) == (CHOOSE i \in 1..Len(DigitChars) : DigitChars[i] = ch) - 1

AllDigits(t) == \A i \in 1..Len(t) : IsDigit(t[i])
IsNumber(t) == Len(t) > 0 /\ AllDigits(t)

RECURSIVE ParseNat(_)
ParseNat(t) ==
  IF t = <<>> THEN 0
  ELSE ParseNat(SubSeq(t, 1, Len(t) - 1)) * 10 + DigitVal(t[Len(t)])

IsLeap(y) == (y % 4 = 0 /\ y % 100 # 0) \/ y % 400 = 0
DaysInMonth(y, m) ==
  IF m = 2 THEN (IF IsLeap(y) THEN 29 ELSE 28)
  ELSE IF m \in {4, 6, 9, 11} THEN 30 ELSE 31

\* An ISO date "YYYY-MM-DD" naming a day of the calendar.
IsDate(t) ==
  /\ Len(t) = 10
  /\ t[5] = "-" /\ t[8] = "-"
  /\ AllDigits(SubSeq(t, 1, 4)) /\ AllDigits(SubSeq(t, 6, 7))
  /\ AllDigits(SubSeq(t, 9, 10))
  /\ ParseNat(SubSeq(t, 6, 7)) \in 1..12
  /\ ParseNat(SubSeq(t, 9, 10)) \in
       1..DaysInMonth(ParseNat(SubSeq(t, 1, 4)), ParseNat(SubSeq(t, 6, 7)))

ParseDate(t) ==
  Ts(ParseNat(SubSeq(t, 1, 4)), ParseNat(SubSeq(t, 6, 7)),
     ParseNat(SubSeq(t, 9, 10)))

(***************************************************************************)
(* Column names (section 6 of the interface: spelling-sensitive).          *)
(***************************************************************************)
OrderDate == "Order Date"
TotalAmount == "Total Amount"
City == "City"
ProductCategory == "Product Category"
Gender == "Gender"
Age == "Age"
PaymentMode == "Payment mode"
CustomerID == "Customer ID"
Month == "Month"

SchemaColumns ==
  {OrderDate, TotalAmount, City, ProductCategory, Gender, Age, PaymentMode}

\* Left-to-right order of the columns in the file; a column assigned later
\* (Month) is appended on the right.
ColumnOrder ==
  <<CustomerID, OrderDate, ProductCategory, City, Gender, Age, PaymentMode,
    TotalAmount, Month>>

Columns == SchemaColumns \cup {CustomerID}

KeepIn(s, set) == SelectSeq(s, LAMBDA c : c \in set)

(***************************************************************************)
(* pd.read_csv: an empty field is NaN; a column whose non-empty fields are *)
(* all numbers is numeric, any other column holds its text (object).       *)
(***************************************************************************)
NumericColumn(f, c) ==
  \A i \in 1..Len(f.lines) : f.lines[i][c] = <<>> \/ IsNumber(f.lines[i][c])

ReadCell(numeric, t) ==
  IF t = <<>> THEN NaN
  ELSE IF numeric THEN Num(ParseNat(t))
  ELSE Str(t)

read_csv(f) ==
  LET numeric == [c \in f.cols |-> NumericColumn(f, c)]
  IN [cols |-> f.cols,
      dtype |-> [c \in f.cols |->
                   IF ~numeric[c] THEN "object"
                   ELSE IF \E i \in 1..Len(f.lines) : f.lines[i][c] = <<>>
                        THEN "float64" ELSE "int64"],
      rows |-> [i \in 1..Len(f.lines) |->
                  [idx |-> i - 1,
                   cell |-> [c \in f.cols |-> ReadCell(numeric[c], f.lines[i][c])]]]]

(***************************************************************************)
(* Element-wise coercions with errors="coerce".                            *)
(***************************************************************************)
to_datetime(v) ==
  IF IsStr(v) THEN (IF IsDate(v.str) THEN ParseDate(v.str) ELSE NaT)
  ELSE IF IsNum(v) THEN Ts(1970, 1, 1)
  ELSE NaT

to_numeric(v) ==
  IF IsNum(v) THEN v
  ELSE IF IsStr(v) THEN (IF IsNumber(v.str) THEN Num(ParseNat(v.str)) ELSE NaN)
  ELSE NaN

\* Variant: the column is taken to be there (no existence check).
HasColumnAssumed(t, c) == TRUE

\* "c" in df.columns
HasColumn(t, c) == c \in t.cols

\* df[c] = values, a series of dtype ty aligned with the rows
AssignColumn(t, c, values, ty) ==
  [cols |-> t.cols \cup {c},
   dtype |-> [k \in t.cols \cup {c} |-> IF k = c THEN ty ELSE t.dtype[k]],
   rows |-> [i \in 1..Len(t.rows) |->
               [idx |-> t.rows[i].idx,
                cell |-> [k \in t.cols \cup {c} |->
                            IF k = c THEN values[i] ELSE t.rows[i].cell[k]]]]]

\* Variant: dropna() without subset, a null anywhere removes the row.
dropna_any(t, cs) ==
  [t EXCEPT !.rows =
     SelectSeq(t.rows, LAMBDA r : \A c \in t.cols : ~IsNull(r.cell[c]))]

\* df.dropna(subset=cs): rows with a null in any column of cs are removed;
\* the others keep their order and their index label.
dropna(t, cs) ==
  [t EXCEPT !.rows =
     SelectSeq(t.rows, LAMBDA r : \A c \in cs : ~IsNull(r.cell[c]))]

\* Variant: City left out of the required columns.
cols_to_check_amount_only(t) == {c \in {TotalAmount} : HasColumn(t, c)}

\* cols_to_check = [c for c in ["Total Amount", "City"] if c in df.columns]
cols_to_check(t) == {c \in {TotalAmount, City} : HasColumn(t, c)}

\* The columns the body of load_and_clean_data subscripts.
LoaderReads(t) ==
  {c \in {OrderDate, TotalAmount} : HasColumn(t, c)} \cup cols_to_check(t)

CoerceDates(t) ==
  IF HasColumn(t, OrderDate)
  THEN AssignColumn(t, OrderDate,
                    [i \in 1..Len(t.rows) |-> to_datetime(t.rows[i].cell[OrderDate])],
                    "datetime64[ns]")
  ELSE t

CoerceAmounts(t) ==
  IF HasColumn(t, TotalAmount)
  THEN AssignColumn(t, TotalAmount,
                    [i \in 1..Len(t.rows) |-> to_numeric(t.rows[i].cell[TotalAmount])],
                    "float64")
  ELSE t

\* Variant: no row is dropped.
KeepAll(t) == t

DropIncomplete(t) ==
  IF cols_to_check(t) # {} THEN dropna(t, cols_to_check(t)) ELSE t

\* The body of load_and_clean_data: the cleaned table, or the KeyError of
\* a subscript with a column the file does not have.
load_and_clean_data(f) ==
  LET raw == read_csv(f)
  IN IF ~(LoaderReads(raw) \subseteq f.cols)
     THEN [err |-> "KeyError"]
     ELSE [err |-> "none",
           table |-> DropIncomplete(CoerceAmounts(CoerceDates(raw)))]

(***************************************************************************)
(* Series and aggregation helpers (pandas).                                *)
(***************************************************************************)
\* df[c] as the sequence of its cells, in row order
Series(t, c) == [i \in 1..Len(t.rows) |-> t.rows[i].cell[c]]

Positions(s, v) == {i \in 1..Len(s) : s[i] = v}
FirstPos(s, v) == CHOOSE i \in Positions(s, v) : \A j \in Positions(s, v) : i <= j

RECURSIVE SumOver(_, _)
SumOver(f, keys) ==
  IF keys = {} THEN 0
  ELSE LET k == CHOOSE x \in keys : TRUE
       IN f[k] + SumOver(f, keys \ {k})

\* Variant: value_counts(dropna=False), nulls are counted as a value.
value_counts_with_nulls(s) ==
  [v \in {s[i] : i \in 1..Len(s)} |-> Cardinality(Positions(s, v))]

\* Series.value_counts(): the count of each distinct non-null value
value_counts(s) ==
  [v \in {s[i] : i \in {j \in 1..Len(s) : ~IsNull(s[j])}} |->
     Cardinality(Positions(s, v))]

\* The index of value_counts(): most frequent first, equal counts in order
\* of first appearance.
RECURSIVE CountOrder(_, _)
CountOrder(s, left) ==
  IF left = {} THEN <<>>
  ELSE LET vc == value_counts(s)
           top == CHOOSE v \in left : \A w \in left :
                    \/ vc[v] > vc[w]
                    \/ vc[v] = vc[w] /\ FirstPos(s, v) <= FirstPos(s, w)
       IN <<top>> \o CountOrder(s, left \ {top})

value_counts_index(s) == CountOrder(s, DOMAIN value_counts(s))

\* value_counts(normalize=True) * 100, to one decimal place (in tenths)
Tenths(n, d) == [tenths |-> (n * 20 + d) \div (2 * d)]

\* Order of text, character by character
Alphabet ==
  <<"-", "0", "1", "2", "3", "4", "5", "6", "7", "8", "9",
    "A", "B", "C", "D", "E", "F", "G", "H", "I", "J", "K", "L", "M",
    "N", "O", "P", "Q", "R", "S", "T", "U", "V", "W", "X", "Y", "Z",
    "a", "b", "c", "d", "e", "f", "g", "h", "i", "j", "k", "l", "m",
    "n", "o", "p", "q", "r", "s", "t", "u", "v", "w", "x", "y", "z">>
CharRank(ch) == CHOOSE i \in 1..Len(Alphabet) : Alphabet[i] = ch

RECURSIVE TextLeq(_, _)
TextLeq(a, b) ==
  IF a = <<>> THEN TRUE
  ELSE IF b = <<>> THEN FALSE
  ELSE IF a[1] = b[1] THEN TextLeq(Tail(a), Tail(b))
  ELSE CharRank(a[1]) < CharRank(b[1])

\* Order of group keys: numbers by value, text alphabetically, periods
\* chronologically.
KeyLeq(a, b) ==
  IF IsNum(a) THEN a.num <= b.num
  ELSE IF IsStr(a) THEN TextLeq(a.str, b.str)
  ELSE a.period[1] * 12 + a.period[2] <= b.period[1] * 12 + b.period[2]

RECURSIVE SortKeys(_)
SortKeys(keys) ==
  IF keys = {} THEN <<>>
  ELSE LET least == CHOOSE k \in keys : \A w \in keys : KeyLeq(k, w)
       IN <<least>> \o SortKeys(keys \ {least})

\* df.groupby(k)[v].sum(): one group per non-null key, groups in key order,
\* null values skipped by the sum.
GroupKeys(t, k) ==
  {t.rows[i].cell[k] : i \in {j \in 1..Len(t.rows) : ~IsNull(t.rows[j].cell[k])}}

GroupSum(t, k, v, key) ==
  LET in == {i \in 1..Len(t.rows) :
               t.rows[i].cell[k] = key /\ ~IsNull(t.rows[i].cell[v])}
  IN SumOver([i \in in |-> t.rows[i].cell[v].num], in)

groupby_sum(t, k, v) ==
  LET keys == SortKeys(GroupKeys(t, k))
  IN [i \in 1..Len(keys) |-> [key |-> keys[i], sum |-> GroupSum(t, k, v, keys[i])]]

\* Series.idxmax() of the series with index keys and the given values: the
\* first key holding the maximum; ValueError on an empty series.
idxmax(keys, values) ==
  IF keys = <<>> THEN [err |-> "ValueError"]
  ELSE LET i == CHOOSE a \in 1..Len(keys) :
                  /\ \A b \in 1..Len(keys) : values[a] >= values[b]
                  /\ \A b \in 1..(a - 1) : values[b] < values[a]
       IN [err |-> "none", val |-> keys[i]]

\* Series.mean(): NaN when every value is null
mean(s) ==
  LET in == {i \in 1..Len(s) : ~IsNull(s[i])}
  IN IF in = {} THEN NaN
     ELSE [sum |-> SumOver([i \in in |-> s[i].num], in), n |-> Cardinality(in)]

NumericDtypes == {"int64", "float64"}

Skipped == [skipped |-> TRUE]

\* Distinct non-null values in order of first appearance
RECURSIVE AppearanceOrder(_, _)
AppearanceOrder(s, left) ==
  IF left = {} THEN <<>>
  ELSE LET nxt == CHOOSE v \in left : \A w \in left : FirstPos(s, v) <= FirstPos(s, w)
       IN <<nxt>> \o AppearanceOrder(s, left \ {nxt})

Counts(s, order) ==
  [i \in 1..Len(order) |-> [key |-> order[i], n |-> value_counts(s)[order[i]]]]

(***************************************************************************)
(* Section 2: Show Dataset Statistics.                                     *)
(***************************************************************************)
NullCount(s) == Cardinality({i \in 1..Len(s) : IsNull(s[i])})

DatasetStatistics(t) ==
  [err |-> "none",
   missing |-> [c \in t.cols |-> NullCount(Series(t, c))],
   describe |-> [c \in t.cols |->
                   [count |-> Len(t.rows) - NullCount(Series(t, c)),
                    unique |-> Cardinality(DOMAIN value_counts(Series(t, c)))]],
   info |-> [entries |-> Len(t.rows),
             columns |-> KeepIn(ColumnOrder, t.cols),
             dtypes |-> t.dtype]]

(***************************************************************************)
(* Section 3: Show Visualizations.                                         *)
(***************************************************************************)
HistBins == 10

\* sns.countplot(y='Product Category', order=value_counts().index)
CategoryChart(t) ==
  Counts(Series(t, ProductCategory), value_counts_index(Series(t, ProductCategory)))

\* sns.boxplot(x='Total Amount', y='City'): the amounts of each city
SalesByCityChart(t) ==
  LET s == Series(t, City)
      order == AppearanceOrder(s, DOMAIN value_counts(s))
  IN [i \in 1..Len(order) |->
        [key |-> order[i],
         amounts |-> Series([rows |-> SelectSeq(t.rows,
                       LAMBDA r : r.cell[City] = order[i] /\ ~IsNull(r.cell[TotalAmount]))],
                     TotalAmount)]]

\* sns.countplot(x='Gender')
GenderChart(t) ==
  LET s == Series(t, Gender)
  IN Counts(s, AppearanceOrder(s, DOMAIN value_counts(s)))

\* sns.histplot(df['Age'], bins=10): equal-width bins from the least to the
\* greatest age; a single distinct age is centred in a range of width one.
AgeBin(x, lo, hi) ==
  IF lo = hi THEN HistBins \div 2
  ELSE IF x = hi THEN HistBins - 1
  ELSE ((x - lo) * HistBins) \div (hi - lo)

AgeChart(t) ==
  LET s == Series(t, Age)
      in == {i \in 1..Len(s) : IsNum(s[i])}
      lo == CHOOSE x \in {s[i].num : i \in in} : \A i \in in : x <= s[i].num
      hi == CHOOSE x \in {s[i].num : i \in in} : \A i \in in : x >= s[i].num
  IN [b \in 0..(HistBins - 1) |->
        Cardinality({i \in in : AgeBin(s[i].num, lo, hi) = b})]

\* value_counts().plot(kind='pie', autopct='%1.1f%%')
PaymentChart(t) ==
  LET s == Series(t, PaymentMode)
      order == value_counts_index(s)
      total == SumOver(value_counts(s), DOMAIN value_counts(s))
  IN [i \in 1..Len(order) |->
        [key |-> order[i],
         share |-> Tenths(value_counts(s)[order[i]] * 100, total)]]

\* df['Month'] = df['Order Date'].dt.to_period('M')
to_period(v) == IF IsTs(v) THEN Period(v.ts[1], v.ts[2]) ELSE NaT

WithMonth(t) ==
  AssignColumn(t, Month,
               [i \in 1..Len(t.rows) |-> to_period(t.rows[i].cell[OrderDate])],
               "period[M]")

\* Period.astype(str): "YYYY-MM"
RECURSIVE NatText(_, _)
NatText(n, width) ==
  IF width = 0 THEN <<>>
  ELSE NatText(n \div 10, width - 1) \o <<DigitChars[(n % 10) + 1]>>

PeriodText(p) == NatText(p.period[1], 4) \o <<"-">> \o NatText(p.period[2], 2)

MonthlySales(t) ==
  LET g == groupby_sum(WithMonth(t), Month, TotalAmount)
  IN [i \in 1..Len(g) |-> [Month |-> PeriodText(g[i].key), Total |-> g[i].sum]]

\* numeric_df.corr(): Pearson's r of each pair of numeric columns over the
\* rows where both are present, kept as the exact integer terms
\* r = cov / sqrt(va * vb).
CorrTerms(t, a, b) ==
  LET in == {i \in 1..Len(t.rows) :
               IsNum(t.rows[i].cell[a]) /\ IsNum(t.rows[i].cell[b])}
      n == Cardinality(in)
      x == [i \in in |-> t.rows[i].cell[a].num]
      y == [i \in in |-> t.rows[i].cell[b].num]
      sx == SumOver(x, in)
      sy == SumOver(y, in)
  IN [n |-> n,
      cov |-> n * SumOver([i \in in |-> x[i] * y[i]], in) - sx * sy,
      va |-> n * SumOver([i \in in |-> x[i] * x[i]], in) - sx * sx,
      vb |-> n * SumOver([i \in in |-> y[i] * y[i]], in) - sy * sy]

select_dtypes(t) == {c \in t.cols : t.dtype[c] \in NumericDtypes}

CorrelationHeatmap(t) ==
  IF select_dtypes(t) = {} \/ t.rows = <<>> THEN Skipped
  ELSE [a \in select_dtypes(t) |-> [b \in select_dtypes(t) |-> CorrTerms(t, a, b)]]

\* The columns the handler subscripts, given the guards it evaluates.
VisualizationReads(t) ==
  (IF HasColumn(t, ProductCategory) THEN {ProductCategory} ELSE {})
  \cup (IF HasColumn(t, TotalAmount) /\ HasColumn(t, City)
        THEN {TotalAmount, City} ELSE {})
  \cup (IF HasColumn(t, Gender) THEN {Gender} ELSE {})
  \cup (IF HasColumn(t, Age) THEN {Age} ELSE {})
  \cup (IF HasColumn(t, PaymentMode) THEN {PaymentMode} ELSE {})
  \cup (IF HasColumn(t, OrderDate) /\ HasColumn(t, TotalAmount)
        THEN {OrderDate, TotalAmount} ELSE {})

\* The table the script holds when the handler ends.
TableAfterVisualizations(t) ==
  IF VisualizationReads(t) \subseteq t.cols
     /\ HasColumn(t, OrderDate) /\ HasColumn(t, TotalAmount)
  THEN WithMonth(t) ELSE t

Visualizations(t) ==
  IF ~(VisualizationReads(t) \subseteq t.cols) THEN [err |-> "KeyError"]
  ELSE
  [err |-> "none",
   categories |-> IF HasColumn(t, ProductCategory) THEN CategoryChart(t) ELSE Skipped,
   sales_by_city |-> IF HasColumn(t, TotalAmount) /\ HasColumn(t, City)
                     THEN SalesByCityChart(t) ELSE Skipped,
   gender |-> IF HasColumn(t, Gender) THEN GenderChart(t) ELSE Skipped,
   age |-> IF HasColumn(t, Age) THEN AgeChart(t) ELSE Skipped,
   payment |-> IF HasColumn(t, PaymentMode) THEN PaymentChart(t) ELSE Skipped,
   monthly |-> IF HasColumn(t, OrderDate) /\ HasColumn(t, TotalAmount)
               THEN MonthlySales(t) ELSE Skipped,
   correlation |-> CorrelationHeatmap(TableAfterVisualizations(t))]

(***************************************************************************)
(* Section 4: Show Summary Insights.                                       *)
(***************************************************************************)
NA == [text |-> <<"N", "/", "A">>]
MaleText == <<"M", "a", "l", "e">>
FemaleText == <<"F", "e", "m", "a", "l", "e">>

\* A value as the f-string renders it
Rendered(r) ==
  IF r.err # "none" THEN r
  ELSE [err |-> "none", val |-> IF IsStr(r.val) THEN [text |-> r.val.str] ELSE r.val]

\* df[c].value_counts().idxmax()
TopByCount(t, c) ==
  IF ~HasColumn(t, c) THEN [err |-> "none", val |-> NA]
  ELSE IF c \notin t.cols THEN [err |-> "KeyError"]
  ELSE LET order == value_counts_index(Series(t, c))
       IN Rendered(idxmax(order,
             [i \in 1..Len(order) |-> value_counts(Series(t, c))[order[i]]]))

top_category(t) == TopByCount(t, ProductCategory)

\* df.groupby('City')['Total Amount'].sum().idxmax()
top_city(t) ==
  IF ~(HasColumn(t, City) /\ HasColumn(t, TotalAmount))
  THEN [err |-> "none", val |-> NA]
  ELSE IF ~({City, TotalAmount} \subseteq t.cols) THEN [err |-> "KeyError"]
  ELSE LET g == groupby_sum(t, City, TotalAmount)
       IN Rendered(idxmax([i \in 1..Len(g) |-> g[i].key], [i \in 1..Len(g) |-> g[i].sum]))

top_payment(t) == TopByCount(t, PaymentMode)

\* gender_dist.get(g, 0) formatted to one decimal place, gender_dist being
\* value_counts(normalize=True) * 100, or {} without a Gender column
GenderShare(t, g) ==
  IF ~HasColumn(t, Gender) THEN Tenths(0, 1)
  ELSE LET s == Series(t, Gender)
       IN IF Str(g) \in DOMAIN value_counts(s)
          THEN Tenths(value_counts(s)[Str(g)] * 100,
                      SumOver(value_counts(s), DOMAIN value_counts(s)))
          ELSE Tenths(0, 1)

gender_dist(t) ==
  IF HasColumn(t, Gender) /\ Gender \notin t.cols THEN [err |-> "KeyError"]
  ELSE [err |-> "none",
        val |-> [Male |-> GenderShare(t, MaleText),
                 Female |-> GenderShare(t, FemaleText)]]

avg_age(t) ==
  IF ~HasColumn(t, Age) THEN [err |-> "none", val |-> NA]
  ELSE IF Age \notin t.cols THEN [err |-> "KeyError"]
  ELSE [err |-> "none", val |-> mean(Series(t, Age))]

\* The statements of the handler in order; the first exception ends the run.
InsightSteps(t) ==
  <<top_category(t), top_city(t), top_payment(t), gender_dist(t), avg_age(t)>>

SummaryInsights(t) ==
  LET steps == InsightSteps(t)
      failed == {i \in 1..Len(steps) : steps[i].err # "none"}
  IN IF failed # {}
     THEN [err |-> steps[CHOOSE i \in failed : \A j \in failed : i <= j].err]
     ELSE [err |-> "none",
           top_category |-> steps[1].val,
           top_city |-> steps[2].val,
           top_payment |-> steps[3].val,
           gender |-> steps[4].val,
           avg_age |-> steps[5].val]

(***************************************************************************)
(* Section 1: the CSV offered for download.                                *)
(***************************************************************************)
RECURSIVE NatDigits(_)
NatDigits(n) ==
  IF n < 10 THEN <<DigitChars[n + 1]>>
  ELSE NatDigits(n \div 10) \o <<DigitChars[(n % 10) + 1]>>

\* The text of one cell; a null cell is an empty field.
Field(v) ==
  IF IsNull(v) THEN <<>>
  ELSE IF IsNum(v) THEN NatDigits(v.num)
  ELSE IF IsStr(v) THEN v.str
  ELSE IF IsTs(v)
       THEN NatText(v.ts[1], 4) \o <<"-">> \o NatText(v.ts[2], 2) \o <<"-">>
            \o NatText(v.ts[3], 2)
  ELSE PeriodText(v)

QuotedEmpty == <<"\"", "\"">>

\* A line of a single empty field is written as "" so that it is not blank.
Line(fields) == IF fields = <<(<<>>)>> THEN <<QuotedEmpty>> ELSE fields

\* df.to_csv(index=...): the header line, then one line per row; with the
\* index, an unnamed first column holding the row labels.
to_csv(t, index) ==
  LET names == KeepIn(ColumnOrder, t.cols)
  IN [header |-> IF index THEN <<"">> \o names ELSE names,
      lines |-> [i \in 1..Len(t.rows) |->
                   Line((IF index THEN <<NatDigits(t.rows[i].idx)>> ELSE <<>>)
                        \o [k \in 1..Len(names) |-> Field(t.rows[i].cell[names[k]])])]]

\* Variant: to_csv() with its default index=True.
DownloadCsvWithIndex(t) == to_csv(t, TRUE)

\* csv_download = df.to_csv(index=False).encode('utf-8')
DownloadCsv(t) == to_csv(t, FALSE)

\* Reading the download back: blank lines are skipped, an unnamed column is
\* named after its position.
ParsedColumns(csv) ==
  {IF csv.header[k] = "" THEN "Unnamed" ELSE csv.header[k] : k \in 1..Len(csv.header)}

ParsedRows(csv) == SelectSeq(csv.lines, LAMBDA l : l # <<(<<>>)>>)

(***************************************************************************)
(* The script as a state machine: one action per user interaction, each a  *)
(* whole execution of the script.                                          *)
(***************************************************************************)
NoCache == [empty |-> TRUE]
NoTable == [cols |-> {}, dtype |-> <<>>, rows |-> <<>>]
NoCsv == [header |-> <<>>, lines |-> <<>>]
NoOutput == [err |-> "none"]

\* Variant: no caching, every call executes the body.
CacheMiss(c) == FALSE

\* st.cache_data: whether the call is served from the stored entry
CacheHit(c) == c # NoCache

\* Variant: the script is handed the stored object itself (st.cache_resource).
StoredEntryShared(stored, held) == held

\* st.cache_data: the entry kept after a run in which the script changed the
\* table it was handed (the script works on a copy of the entry)
StoredEntry(stored, held) == stored

\* What the pressed button renders from the table df
Render(button, t) ==
  IF button = "statistics" THEN DatasetStatistics(t)
  ELSE IF button = "visualizations" THEN Visualizations(t)
  ELSE IF button = "insights" THEN SummaryInsights(t)
  ELSE NoOutput

HeldAfter(button, t) ==
  IF button = "visualizations" THEN TableAfterVisualizations(t) ELSE t

\* One execution of the script with the given button pressed.
Run(button) ==
  LET hit == CacheHit(cache)
      res == IF hit THEN [err |-> "none", table |-> cache.table]
             ELSE load_and_clean_data(file)
  IN /\ bodyRuns' = IF hit THEN bodyRuns ELSE bodyRuns + 1
     /\ lastAction' = button
     /\ started' = TRUE
     /\ IF res.err # "none"
        THEN /\ out' = [err |-> res.err]
             /\ UNCHANGED <<cache, firstTable, loaded, df, csv_download>>
        ELSE /\ firstTable' = IF hit THEN firstTable ELSE res.table
             /\ loaded' = res.table
             /\ csv_download' = DownloadCsv(res.table)
             /\ out' = Render(button, res.table)
             /\ df' = HeldAfter(button, res.table)
             /\ cache' = [table |-> StoredEntry(res.table, df')]
     /\ shownBefore' = (shownBefore \/ lastAction = "visualizations")
     /\ file' = file

OpenPage == ~started /\ Run("open")
ClickDownload == started /\ Run("download")
ShowDatasetStatistics == started /\ Run("statistics")
ShowVisualizations == started /\ Run("visualizations")
ShowSummaryInsights == started /\ Run("insights")

\* Expanding or collapsing the preview happens in the browser: no rerun.
PreviewDataset == started /\ UNCHANGED vars

Next ==
  \/ OpenPage
  \/ ClickDownload
  \/ ShowDatasetStatistics
  \/ ShowVisualizations
  \/ ShowSummaryInsights
  \/ PreviewDataset

(***************************************************************************)
(* Source files.                                                           *)
(***************************************************************************)
T100 == <<"1", "0", "0">>
T50 == <<"5", "0">>
Tabc == <<"a", "b", "c">>
Delhi == <<"D", "e", "l", "h", "i">>
Pune == <<"P", "u", "n", "e">>

AmountTexts == {T100, Tabc, <<>>}
CityTexts == {Delhi, Pune, <<>>}

\* The other fields of a line: all filled in; another customer; all empty or
\* unparseable.
FullFields ==
  [c \in Columns \ {TotalAmount, City} |->
     CASE c = OrderDate -> <<"2", "0", "2", "4", "-", "0", "1", "-", "1", "5">>
       [] c = ProductCategory -> <<"B", "o", "o", "k", "s">>
       [] c = Gender -> MaleText
       [] c = Age -> <<"3", "0">>
       [] c = PaymentMode -> <<"C", "a", "r", "d">>
       [] c = CustomerID -> <<"C", "1">>]

OtherFields ==
  [c \in Columns \ {TotalAmount, City} |->
     CASE c = OrderDate -> <<"2", "0", "2", "4", "-", "0", "2", "-", "0", "3">>
       [] c = ProductCategory -> <<"T", "o", "y", "s">>
       [] c = Gender -> FemaleText
       [] c = Age -> <<"4", "1">>
       [] c = PaymentMode -> <<"C", "a", "s", "h">>
       [] c = CustomerID -> <<"C", "2">>]

SparseFields ==
  [c \in Columns \ {TotalAmount, City} |->
     CASE c = OrderDate -> <<"2", "0", "2", "4", "-", "1", "3", "-", "0", "1">>
       [] c = CustomerID -> <<"C", "3">>
       [] OTHER -> <<>>]

FileLine(amount, city, rest) ==
  [c \in Columns |->
     IF c = TotalAmount THEN amount ELSE IF c = City THEN city ELSE rest[c]]

Project(line, cols) == [c \in cols |-> line[c]]

SeqsUpTo(S, n) == UNION {[1..k -> S] : k \in 0..n}

Files(colsets, lines) ==
  {[cols |-> cs, lines |-> [i \in 1..Len(ls) |-> Project(ls[i], cs)]] :
     cs \in colsets, ls \in SeqsUpTo(lines, MaxRows)}

\* Every set of columns, over a few representative lines.
SchemaLines ==
  {FileLine(T100, Delhi, FullFields), FileLine(T50, Pune, OtherFields),
   FileLine(T100, <<>>, SparseFields), FileLine(T50, Delhi, SparseFields)}

SchemaFiles ==
  Files({present \cup {CustomerID} : present \in SUBSET SchemaColumns}, SchemaLines)

\* Every amount and city, with and without those two columns.
CleaningLines ==
  {FileLine(a, c, r) : a \in AmountTexts, c \in CityTexts,
                       r \in {FullFields, SparseFields}}

CleaningFiles ==
  Files({Columns \ absent : absent \in SUBSET {TotalAmount, City}}, CleaningLines)

InitWith(files) ==
  /\ file \in files
  /\ cache = NoCache
  /\ bodyRuns = 0
  /\ firstTable = NoTable
  /\ loaded = NoTable
  /\ df = NoTable
  /\ csv_download = NoCsv
  /\ out = NoOutput
  /\ lastAction = "none"
  /\ started = FALSE
  /\ shownBefore = FALSE

Init == InitWith(SchemaFiles)
InitCleaning == InitWith(CleaningFiles)

Spec == Init /\ [][Next]_vars
SpecCleaning == InitCleaning /\ [][Next]_vars

(***************************************************************************)
(* Properties.                                                             *)
(***************************************************************************)
Buttons == {"statistics", "visualizations", "insights"}

CountsTotal(entries) ==
  SumOver([i \in 1..Len(entries) |-> entries[i].n], 1..Len(entries))

\* C1: every row of the cleaned table has a number as Total Amount and a
\* non-null City, for whichever of the two columns the file has.
C1_RequiredFieldsPresent ==
  started =>
    \A i \in 1..Len(loaded.rows) :
      /\ TotalAmount \in file.cols => IsNum(loaded.rows[i].cell[TotalAmount])
      /\ City \in file.cols => ~IsNull(loaded.rows[i].cell[City])

\* A file with both columns in which one line was dropped for an unparseable
\* amount and another was kept.
C1_Witness ==
  /\ started
  /\ {TotalAmount, City} \subseteq file.cols
  /\ \E i \in 1..Len(file.lines) : file.lines[i][TotalAmount] = Tabc
  /\ Len(loaded.rows) = 1
  /\ Len(file.lines) = 2

\* The lines of the file whose Total Amount is a number and whose City is
\* filled in (for whichever of the two columns the file has).
Complete(i) ==
  /\ TotalAmount \in file.cols => IsNumber(file.lines[i][TotalAmount])
  /\ City \in file.cols => file.lines[i][City] # <<>>

\* C2: every line of the file with a parseable Total Amount and a non-null
\* City is a row of the cleaned table, the rows are in the order of the
\* lines, and the fields of a kept row are those of its line: the amount is
\* the number written there, an unparseable Order Date is NaT, every other
\* field has the text of the line (null where it is empty).
C2_OnlyRequiredColumnsDrop ==
  started =>
    /\ \A i \in 1..Len(file.lines) :
         Complete(i) => \E k \in 1..Len(loaded.rows) : loaded.rows[k].idx = i - 1
    /\ \A k, l \in 1..Len(loaded.rows) :
         k < l => loaded.rows[k].idx < loaded.rows[l].idx
    /\ \A k \in 1..Len(loaded.rows) :
         LET line == file.lines[loaded.rows[k].idx + 1]
         IN /\ \A c \in file.cols \ {OrderDate, TotalAmount} :
                 /\ Field(loaded.rows[k].cell[c]) = line[c]
                 /\ IsNull(loaded.rows[k].cell[c]) <=> line[c] = <<>>
            /\ TotalAmount \in file.cols =>
                 loaded.rows[k].cell[TotalAmount] = Num(ParseNat(line[TotalAmount]))
            /\ OrderDate \in file.cols =>
                 loaded.rows[k].cell[OrderDate] =
                   IF IsDate(line[OrderDate]) THEN ParseDate(line[OrderDate]) ELSE NaT

\* Two kept rows, the second with an unparseable Order Date and no
\* Product Category, Gender, Age or Payment mode.
C2_Witness ==
  /\ started
  /\ file.cols = Columns
  /\ Len(loaded.rows) = 2
  /\ file.lines[2][OrderDate] # <<>>
  /\ loaded.rows[2].cell[OrderDate] = NaT
  /\ \A c \in {ProductCategory, Gender, Age, PaymentMode} :
       IsNull(loaded.rows[2].cell[c])

\* C3: after any user action the table the script holds is the cleaned
\* table the loader returned.
C3_TableNeverMutated ==
  started => df = loaded

\* C4: with any schema columns absent no run ends in a lookup error and no
\* handler subscripts an absent column; a chart whose columns are absent
\* is skipped; the summary shows N/A (0.0% for the genders) for an absent
\* column, and when it is not rendered the failure is the ValueError of an
\* arg-max over a column that is present.
C4_AbsentColumnsSkipped ==
  /\ out.err # "KeyError"
  /\ started =>
       /\ LoaderReads(read_csv(file)) \subseteq file.cols
       /\ VisualizationReads(loaded) \subseteq loaded.cols
       /\ lastAction # "insights" => out.err = "none"
       /\ lastAction = "visualizations" =>
            /\ ProductCategory \notin file.cols => out.categories = Skipped
            /\ ~({TotalAmount, City} \subseteq file.cols) => out.sales_by_city = Skipped
            /\ Gender \notin file.cols => out.gender = Skipped
            /\ Age \notin file.cols => out.age = Skipped
            /\ PaymentMode \notin file.cols => out.payment = Skipped
            /\ ~({OrderDate, TotalAmount} \subseteq file.cols) => out.monthly = Skipped
       /\ lastAction = "insights" =>
            IF out.err = "none"
            THEN /\ ProductCategory \notin file.cols => out.top_category = NA
                 /\ ~({TotalAmount, City} \subseteq file.cols) => out.top_city = NA
                 /\ PaymentMode \notin file.cols => out.top_payment = NA
                 /\ Age \notin file.cols => out.avg_age = NA
                 /\ Gender \notin file.cols =>
                      out.gender.Male.tenths = 0 /\ out.gender.Female.tenths = 0
            ELSE /\ out.err = "ValueError"
                 /\ \/ \E c \in {ProductCategory, PaymentMode} \cap file.cols :
                         \A i \in 1..Len(loaded.rows) : IsNull(loaded.rows[i].cell[c])
                    \/ {TotalAmount, City} \subseteq file.cols /\ loaded.rows = <<>>

\* The summary rendered from a file with rows and none of the schema columns.
C4_Witness ==
  /\ lastAction = "insights"
  /\ out.err = "none"
  /\ file.cols \cap SchemaColumns = {}
  /\ Len(loaded.rows) > 0
  /\ out.top_category = NA /\ out.top_city = NA /\ out.top_payment = NA
  /\ out.avg_age = NA

\* C5: the body of load_and_clean_data executes at most once, and every
\* call returns the table its first execution returned.
C5_Memoized ==
  /\ bodyRuns <= 1
  /\ started => bodyRuns = 1 /\ loaded = firstTable

\* A rerun after Show Visualizations changed the script's table.
C5_Witness ==
  /\ shownBefore
  /\ lastAction = "insights"
  /\ bodyRuns = 1
  /\ Len(loaded.rows) > 0
  /\ OrderDate \in file.cols /\ TotalAmount \in file.cols

\* C6: whatever was clicked before, a button renders what it renders as the
\* first action after the load.
C6_OutputIndependentOfHistory ==
  started /\ lastAction \in Buttons =>
    out = Render(lastAction, load_and_clean_data(file).table)

\* Statistics shown after a Show Visualizations run that added Month.
C6_Witness ==
  /\ shownBefore
  /\ lastAction = "statistics"
  /\ {OrderDate, TotalAmount} \subseteq file.cols
  /\ Len(loaded.rows) > 0
  /\ Month \notin DOMAIN out.missing

\* C7 as stated: the per-category counts add up to the number of rows.
C7_CategoryCountsSumToRows ==
  lastAction = "visualizations" /\ ProductCategory \in file.cols =>
    CountsTotal(out.categories) = Len(loaded.rows)

\* C7 amended: the per-category counts add up to the number of rows whose
\* Product Category is not null.
C7_CategoryCountsSumToNonNull ==
  lastAction = "visualizations" /\ ProductCategory \in file.cols =>
    CountsTotal(out.categories) =
      Len(loaded.rows) - NullCount(Series(loaded, ProductCategory))

\* A chart over a row with a category and a row without one.
C7_Witness ==
  /\ lastAction = "visualizations"
  /\ ProductCategory \in file.cols
  /\ Len(loaded.rows) = 2
  /\ NullCount(Series(loaded, ProductCategory)) = 1
  /\ CountsTotal(out.categories) = 1

\* C8: the per-city sales add up to the Total Amount of the whole table.
C8_CitySalesSumToTotal ==
  started /\ {City, TotalAmount} \subseteq file.cols =>
    LET g == groupby_sum(loaded, City, TotalAmount)
        amounts == {i \in 1..Len(loaded.rows) : IsNum(loaded.rows[i].cell[TotalAmount])}
    IN SumOver([i \in 1..Len(g) |-> g[i].sum], 1..Len(g)) =
         SumOver([i \in amounts |-> loaded.rows[i].cell[TotalAmount].num], amounts)

\* Two cities with different sales.
C8_Witness ==
  /\ started
  /\ {City, TotalAmount} \subseteq file.cols
  /\ Len(groupby_sum(loaded, City, TotalAmount)) = 2
  /\ groupby_sum(loaded, City, TotalAmount)[1].sum
       # groupby_sum(loaded, City, TotalAmount)[2].sum

\* C9: in every run the download parses back to the row count and the
\* column names of the cleaned table: no index column, no derived column.
C9_DownloadRoundTrips ==
  started =>
    /\ Len(ParsedRows(csv_download)) = Len(loaded.rows)
    /\ ParsedColumns(csv_download) = loaded.cols
    /\ ParsedColumns(csv_download) = file.cols

\* The download of a second Show Visualizations run, which again ends with
\* a Month column in the script's table.
C9_Witness ==
  /\ shownBefore
  /\ lastAction = "visualizations"
  /\ Month \in df.cols
  /\ Len(csv_download.lines) = 1
  /\ Len(file.lines) = 2

\* C10: Show Summary Insights renders its summary for every cleaned table.
C10_InsightsAlwaysRender ==
  lastAction = "insights" => out.err = "none"

====
